---- MODULE Spec2Model ----
(***************************************************************************)
(* repo-branch: create one branch across several GitHub repositories.      *)
(* A model of src/src/index.ts: the main wrapper (preflight probe of the   *)
(* gh CLI), run() (owner resolution, repository listing, selection, the    *)
(* Listr task list) and createBranch() (three gh calls and the             *)
(* classification of their failure).                                       *)
(*                                                                         *)
(* The program is one asynchronous control flow; its only suspension       *)
(* points are the awaited external calls, so every action below is one     *)
(* external call together with the synchronous code that follows it up to  *)
(* the next await.  Strings are modelled as strings: the error messages    *)
(* are built and searched the way child_process.exec and the code do.      *)
(***************************************************************************)
EXTENDS Integers, Sequences, FiniteSets, TLC

VARIABLES
    pc,             \* position of the control flow
    help,           \* argv: -h / --help is given
    GITHUB_ORG,     \* process.env.BRANCH_SYNC_GITHUB_ORG || ""
    branchName,     \* argv: <branch-name>
    repoNames,      \* argv: [repositories...]
    remoteRefs,     \* the hosting service: repositories where refs/heads/<branchName> exists
    owner,          \* run: const owner
    allRepos,       \* run: const allRepos
    selectedRepos,  \* run: let selectedRepos
    warnings,       \* the not-found warnings printed: each the list of names it names
    taskIdx,        \* index in selectedRepos of the Listr task that runs
    defaultBranch,  \* createBranch: const defaultBranch
    sha,            \* createBranch: const sha
    invoked,        \* repositories createBranch was invoked for, in order
    outcomes,       \* one record per finished createBranch invocation, in order
    createdRefs,    \* refs the service created in this run: <<repo, ref, sha>>
    issued,         \* the external calls issued so far, in order, each with its error
    stdout,         \* console.log lines of interest printed so far
    exitCode,       \* -1 while the process runs, else its exit code
    listing         \* getRepositories: const repos, kept by the Lister's specification only

vars == <<pc, help, GITHUB_ORG, branchName, repoNames, remoteRefs, owner, allRepos,
          selectedRepos, warnings, taskIdx, defaultBranch, sha, invoked,
          outcomes, createdRefs, issued, stdout, exitCode, listing>>

(***************************************************************************)
(* Bounds of the model.                                                    *)
(***************************************************************************)
\* longest list of explicit repository names on the command line
MaxNames == 2
\* largest number of repositories the listing call returns
MaxRepos == 2
\* largest number of repositories of a listing in the Lister's specification
MaxListed == 3

\* repository names that occur (in the listing, on the command line)
Names == {"bar", "baz", "foo"}
\* branch names on the command line; the second one holds the words the
\* task's catch block searches the error message for
BranchNames == {"x", "already exists"}
\* values of BRANCH_SYNC_GITHUB_ORG ("" when unset)
Orgs == {"", "acme"}
\* what `gh api user --jq .login` prints
LoginStdouts == {"alice\n"}
\* what `gh repo view --jq .defaultBranchRef.name` prints at call time
DefaultBranchStdouts == {"trunk\n", "\n"}
\* the defaultBranchRef of a listed repository: null or {name}
Null == "<null>"
ListedRefs == {Null, "develop"}

(***************************************************************************)
(* Strings.                                                                *)
(***************************************************************************)
\* String.prototype.includes
Includes(s, sub) ==
    \E i \in 1..(Len(s) - Len(sub) + 1) : SubSeq(s, i, i + Len(sub) - 1) = sub

IsSpace(c) == c \in {" ", "\n", "\t", "\r"}

RECURSIVE TrimStart(_)
TrimStart(s) ==
    IF Len(s) > 0 /\ IsSpace(SubSeq(s, 1, 1))
    THEN TrimStart(SubSeq(s, 2, Len(s)))
    ELSE s

RECURSIVE TrimEnd(_)
TrimEnd(s) ==
    IF Len(s) > 0 /\ IsSpace(SubSeq(s, Len(s), Len(s)))
    THEN TrimEnd(SubSeq(s, 1, Len(s) - 1))
    ELSE s

\* String.prototype.trim
Trim(s) == TrimEnd(TrimStart(s))

\* the collation order of the characters that occur in full names
Alphabet == "-/abcdefghijklmnopqrstuvwxyz"

CharRank(c) == CHOOSE i \in 1..Len(Alphabet) : SubSeq(Alphabet, i, i) = c

\* String.prototype.localeCompare on the strings of Alphabet: -1, 0 or 1
RECURSIVE localeCompare(_, _)
localeCompare(a, b) ==
    IF Len(a) = 0 /\ Len(b) = 0 THEN 0
    ELSE IF Len(a) = 0 THEN -1
    ELSE IF Len(b) = 0 THEN 1
    ELSE LET ra == CharRank(SubSeq(a, 1, 1))
             rb == CharRank(SubSeq(b, 1, 1))
         IN  IF ra < rb THEN -1
             ELSE IF ra > rb THEN 1
             ELSE localeCompare(SubSeq(a, 2, Len(a)), SubSeq(b, 2, Len(b)))

\* chalk.yellow
Yellow(s) == "[33m" \o s \o "[39m"

(***************************************************************************)
(* Errors.                                                                 *)
(***************************************************************************)
\* new Error(message): no stderr property
Error(message) == [message |-> message, stderr |-> ""]

\* the rejection of a promisified child_process.exec
ExecError(cmd, stderr) ==
    [message |-> "Command failed: " \o cmd \o "\n" \o stderr, stderr |-> stderr]

\* stderr of gh when ref creation hits the conflict
ConflictStderr == "gh: Reference already exists (HTTP 422)\n"
\* stderr of gh on the other failures
FailureStderrs == {"gh: Not Found (HTTP 404)\n"}

PromptCancelled == "Prompt was cancelled"
PromptErrors == {PromptCancelled, "Prompt couldn't be rendered in the current environment"}

(***************************************************************************)
(* Command lines.                                                          *)
(***************************************************************************)
VersionCmd == "gh --version"
UserCmd == "gh api user --jq .login"
ListCmd(o) ==
    "gh repo list " \o o \o " --limit 1000 --json name,defaultBranchRef,nameWithOwner"
ViewCmd(o, repoName) ==
    "gh repo view " \o o \o "/" \o repoName
        \o " --json defaultBranchRef --jq .defaultBranchRef.name"
ShaCmd(o, repoName, branch) ==
    "gh api repos/" \o o \o "/" \o repoName \o "/git/refs/heads/" \o branch
        \o " --jq .object.sha"
RefCmd(o, repoName, branch, commit) ==
    "gh api repos/" \o o \o "/" \o repoName \o "/git/refs -f ref=refs/heads/"
        \o branch \o " -f sha=" \o commit
Prompt == "inquirer.prompt"

\* an entry of the log of external calls: error is "" when the call succeeded
Call(call, error) == [call |-> call, error |-> error, out |-> ""]

\* the entry of a call that succeeded and printed `out`
Answered(call, out) == [call |-> call, error |-> "", out |-> out]

(***************************************************************************)
(* getRepositories: normalisation and sort of the listing.                 *)
(***************************************************************************)
\* the repositories `gh repo list` may print for owner o: name, defaultBranchRef
\* (null or its name), nameWithOwner
RawRepos(o) ==
    [name : Names, defaultBranchRef : ListedRefs, nameWithOwner : {o \o "/" \o n : n \in Names}]

\* the parsed stdout of `gh repo list` with at most n repositories: names are
\* unique within an owner
ListResponsesUpTo(o, n) ==
    UNION { { r \in [1..k -> {q \in RawRepos(o) : q.nameWithOwner = o \o "/" \o q.name}] :
                \A i, j \in 1..k : r[i].name = r[j].name => i = j }
            : k \in 0..n }

ListResponses(o) == ListResponsesUpTo(o, MaxRepos)

\* .map((repo) => ({name, defaultBranch: repo.defaultBranchRef?.name || "main", full_name}))
Normalize(repo) ==
    [name          |-> repo.name,
     defaultBranch |-> IF repo.defaultBranchRef = Null \/ repo.defaultBranchRef = ""
                       THEN "main" ELSE repo.defaultBranchRef,
     full_name     |-> repo.nameWithOwner]

\* CompareRepos with its operands exchanged
CompareReposReversed(a, b) == localeCompare(b.full_name, a.full_name)

\* the comparator of .sort: a.full_name.localeCompare(b.full_name)
CompareRepos(a, b) == localeCompare(a.full_name, b.full_name)

\* one step of a stable sort: x goes behind every element that does not sort after it
RECURSIVE Insert(_, _)
Insert(sorted, x) ==
    IF Len(sorted) = 0 THEN <<x>>
    ELSE IF CompareRepos(sorted[Len(sorted)], x) <= 0 THEN Append(sorted, x)
    ELSE Append(Insert(SubSeq(sorted, 1, Len(sorted) - 1), x), sorted[Len(sorted)])

\* Array.prototype.sort with CompareRepos (stable)
RECURSIVE SortRepos(_)
SortRepos(repos) ==
    IF Len(repos) = 0 THEN <<>>
    ELSE Insert(SortRepos(SubSeq(repos, 1, Len(repos) - 1)), repos[Len(repos)])

\* the value getRepositories returns for a parsed listing
NormalizedListing(response) ==
    SortRepos([i \in 1..Len(response) |-> Normalize(response[i])])

(***************************************************************************)
(* run: selection.                                                         *)
(***************************************************************************)
\* Array.prototype.includes
ArrayIncludes(seq, x) == \E i \in 1..Len(seq) : seq[i] = x

\* SelectedByName matching the first name only
SelectedByNameFirstOnly(repos, names) ==
    LET Keep(repo) == repo.name = names[1] IN SelectSeq(repos, Keep)

\* SelectedByName taking every name given for a repository, listed or not
SelectedByNameUnlisted(repos, names) ==
    [i \in 1..Len(names) |->
        [name |-> names[i], defaultBranch |-> "main", full_name |-> names[i]]]

\* SelectedByName taking a listed repository once for every time it is named
RECURSIVE SelectedByNamePerOccurrence(_, _)
SelectedByNamePerOccurrence(repos, names) ==
    IF Len(repos) = 0 THEN <<>>
    ELSE LET times == Cardinality({i \in 1..Len(names) : names[i] = repos[1].name})
         IN  [k \in 1..times |-> repos[1]]
                \o SelectedByNamePerOccurrence(Tail(repos), names)

\* SelectedByName going through the names in the order given (each name once)
RECURSIVE SelectedByNameInGivenOrder(_, _)
SelectedByNameInGivenOrder(repos, names) ==
    IF Len(names) = 0 THEN <<>>
    ELSE LET last == names[Len(names)]
             front == SubSeq(names, 1, Len(names) - 1)
             Named(repo) == repo.name = last
         IN  SelectedByNameInGivenOrder(repos, front)
                \o (IF ArrayIncludes(front, last) THEN <<>> ELSE SelectSeq(repos, Named))

\* allRepos.filter((repo) => repoNames.includes(repo.name))
SelectedByName(repos, names) ==
    LET Keep(repo) == ArrayIncludes(names, repo.name) IN SelectSeq(repos, Keep)

\* repoNames.filter((name) => !allRepos.some((repo) => repo.name === name))
NotFound(repos, names) ==
    LET Keep(name) == ~(\E i \in 1..Len(repos) : repos[i].name = name)
    IN  SelectSeq(names, Keep)

\* the answers of the checkbox prompt: the checked choices, in the order of the choices
CheckedChoices(repos, checked) ==
    LET Keep(repo) == repo.name \in checked IN SelectSeq(repos, Keep)

(***************************************************************************)
(* Error classification.                                                   *)
(***************************************************************************)
AlreadyExistsMessage == "Branch already exists"

\* CreateBranchCatch looking for the conflict in the wrong letter case
CreateBranchCatchWrongCase(error) ==
    IF error.stderr # "" /\ Includes(error.stderr, "reference already exists")
    THEN Error(AlreadyExistsMessage)
    ELSE error

\* createBranch, catch block: the error createBranch rejects with
CreateBranchCatch(error) ==
    IF error.stderr # "" /\ Includes(error.stderr, "Reference already exists")
    THEN Error(AlreadyExistsMessage)
    ELSE error

\* the task's catch block: the error the Listr task rejects with
TaskCatch(error) ==
    IF Includes(error.message, "already exists")
    THEN Error(Yellow(AlreadyExistsMessage))
    ELSE error

\* CatchExitCode without the test for the cancelled prompt
CatchExitCodeAlwaysOne(error) == 1

\* run, catch block: the code process.exit is called with
CatchExitCode(error) ==
    IF error.message = PromptCancelled THEN 0 ELSE 1

\* the outcome createBranch's rejection stands for
CreateBranchOutcome(error) ==
    IF error.message = AlreadyExistsMessage THEN "AlreadyExists" ELSE "Failed"

\* the outcome the task's rejection is shown as
TaskOutcome(error) ==
    IF error.message = Yellow(AlreadyExistsMessage) THEN "AlreadyExists" ELSE "Failed"

(***************************************************************************)
(* The state machine.                                                      *)
(***************************************************************************)
\* the lists of explicit repository names the command line may hold
ExplicitNameLists == UNION { [1..k -> Names] : k \in 0..MaxNames }

\* the commit the service reports as the head of a branch
HeadCommit(branch) == "c0ffee-" \o branch \o "\n"

Init ==
    /\ pc = "main"
    /\ GITHUB_ORG \in Orgs
    /\ \/ /\ help = FALSE
          /\ branchName \in BranchNames
          /\ repoNames \in ExplicitNameLists
       \/ /\ help = TRUE
          /\ branchName = ""
          /\ repoNames = <<>>
    /\ remoteRefs \in SUBSET Names
    /\ owner = ""
    /\ allRepos = <<>>
    /\ selectedRepos = <<>>
    /\ warnings = <<>>
    /\ taskIdx = 0
    /\ defaultBranch = ""
    /\ sha = ""
    /\ invoked = <<>>
    /\ outcomes = <<>>
    /\ createdRefs = {}
    /\ issued = <<>>
    /\ stdout = {}
    /\ exitCode = -1
    /\ listing = <<>>

\* the command line and the environment do not change during a run; a run
\* does not keep the parsed listing
Inputs == <<help, GITHUB_ORG, branchName, repoNames, listing>>

\* run, catch block: "Operation cancelled" and exit 0 for a cancelled prompt,
\* exit 1 for everything else
RunCatch(error) ==
    /\ pc' = "exited"
    /\ exitCode' = CatchExitCode(error)
    /\ stdout' = IF error.message = PromptCancelled
                 THEN stdout \cup {"Operation cancelled"}
                 ELSE stdout

\* CheckGitHubCLI going on to run() whatever the probe says
CheckGitHubCLIIgnored ==
    /\ pc = "main"
    /\ \E available \in BOOLEAN :
         /\ issued' = Append(issued,
                Call(VersionCmd, IF available THEN "" ELSE "gh: command not found\n"))
         /\ pc' = IF help THEN "exited" ELSE "owner"
         /\ exitCode' = IF help THEN 0 ELSE exitCode
         /\ stdout' = IF help THEN stdout \cup {"Usage"} ELSE stdout
    /\ UNCHANGED <<Inputs, remoteRefs, owner, allRepos, selectedRepos, warnings,
                   taskIdx, defaultBranch, sha, invoked, outcomes, createdRefs>>

\* program.parse(): with -h the usage is printed and the process exits 0,
\* else the action calls run()
ProgramParse ==
    IF help
    THEN /\ stdout' = stdout \cup {"Usage"}
         /\ pc' = "exited"
         /\ exitCode' = 0
    ELSE /\ pc' = "owner"
         /\ UNCHANGED <<stdout, exitCode>>

\* main wrapper: the probe `gh --version`; process.exit(1) when it fails,
\* else program.parse()
CheckGitHubCLI ==
    /\ pc = "main"
    /\ \E available \in BOOLEAN :
         IF available
         THEN /\ issued' = Append(issued, Call(VersionCmd, ""))
              /\ ProgramParse
         ELSE /\ issued' = Append(issued, Call(VersionCmd, "gh: command not found\n"))
              /\ pc' = "exited"
              /\ exitCode' = 1
              /\ stdout' = stdout
    /\ UNCHANGED <<Inputs, remoteRefs, owner, allRepos, selectedRepos, warnings,
                   taskIdx, defaultBranch, sha, invoked, outcomes, createdRefs>>

\* ValidateAndGetOwner asking for the authenticated user although an
\* organisation is configured
ValidateAndGetOwnerAlwaysAsks ==
    /\ pc = "owner"
    /\ \/ \E out \in LoginStdouts :
            /\ issued' = Append(issued, Answered(UserCmd, out))
            /\ owner' = Trim(out)
            /\ pc' = "list"
            /\ stdout' = stdout \cup {"Fetching repositories"}
            /\ exitCode' = exitCode
       \/ \E stderr \in FailureStderrs :
            /\ issued' = Append(issued, Call(UserCmd, stderr))
            /\ RunCatch(Error("Failed to get GitHub user. Please run 'gh auth login'"))
            /\ owner' = owner
    /\ UNCHANGED <<Inputs, remoteRefs, allRepos, selectedRepos, warnings,
                   taskIdx, defaultBranch, sha, invoked, outcomes, createdRefs>>

\* validateAndGetOwner: the configured organisation, else the login of the
\* authenticated user (getCurrentUser); its failure is rethrown to run's
\* catch.  With an owner, run logs that it fetches the repositories.
ValidateAndGetOwner ==
    /\ pc = "owner"
    /\ IF GITHUB_ORG # ""
       THEN /\ owner' = GITHUB_ORG
            /\ pc' = "list"
            /\ stdout' = stdout \cup {"Fetching repositories"}
            /\ UNCHANGED <<issued, exitCode>>
       ELSE \/ \E out \in LoginStdouts :
                 /\ issued' = Append(issued, Answered(UserCmd, out))
                 /\ owner' = Trim(out)
                 /\ pc' = "list"
                 /\ stdout' = stdout \cup {"Fetching repositories"}
                 /\ exitCode' = exitCode
            \/ \E stderr \in FailureStderrs :
                 /\ issued' = Append(issued, Call(UserCmd, stderr))
                 /\ RunCatch(Error("Failed to get GitHub user. Please run 'gh auth login'"))
                 /\ owner' = owner
    /\ UNCHANGED <<Inputs, remoteRefs, allRepos, selectedRepos, warnings,
                   taskIdx, defaultBranch, sha, invoked, outcomes, createdRefs>>

\* GetRepositories returning an empty list when the listing call fails
GetRepositoriesSwallowsError ==
    /\ pc = "list"
    /\ \/ \E response \in ListResponses(owner) :
            /\ issued' = Append(issued, Call(ListCmd(owner), ""))
            /\ allRepos' = NormalizedListing(response)
       \/ \E stderr \in FailureStderrs :
            /\ issued' = Append(issued, Call(ListCmd(owner), stderr))
            /\ allRepos' = <<>>
    /\ pc' = "select"
    /\ UNCHANGED <<Inputs, remoteRefs, owner, selectedRepos, warnings, taskIdx,
                   defaultBranch, sha, invoked, outcomes, createdRefs, exitCode, stdout>>

\* getRepositories: `gh repo list`, normalised and sorted; its failure is
\* rethrown to run's catch
GetRepositories ==
    /\ pc = "list"
    /\ \/ \E response \in ListResponses(owner) :
            /\ issued' = Append(issued, Call(ListCmd(owner), ""))
            /\ allRepos' = NormalizedListing(response)
            /\ pc' = "select"
            /\ UNCHANGED <<exitCode, stdout>>
       \/ \E stderr \in FailureStderrs :
            /\ issued' = Append(issued, Call(ListCmd(owner), stderr))
            /\ RunCatch(ExecError(ListCmd(owner), stderr))
            /\ allRepos' = allRepos
    /\ UNCHANGED <<Inputs, remoteRefs, owner, selectedRepos, warnings,
                   taskIdx, defaultBranch, sha, invoked, outcomes, createdRefs>>

\* AfterSelection treating an empty selection as an error
AfterSelectionEmptyFails(selected) ==
    IF Len(selected) = 0
    THEN /\ stdout' = stdout \cup {"No repositories selected"}
         /\ pc' = "exited"
         /\ exitCode' = 1
         /\ taskIdx' = taskIdx
    ELSE /\ stdout' = stdout \cup {"Creating branch"}
         /\ pc' = "view"
         /\ taskIdx' = 1
         /\ exitCode' = exitCode

\* run, after the selection: return when nothing is selected, else announce
\* the branch creation, build the Listr task list and start its first task
AfterSelection(selected) ==
    IF Len(selected) = 0
    THEN /\ stdout' = stdout \cup {"No repositories selected"}
         /\ pc' = "exited"
         /\ exitCode' = 0
         /\ taskIdx' = taskIdx
    ELSE /\ stdout' = stdout \cup {"Creating branch"}
         /\ pc' = "view"
         /\ taskIdx' = 1
         /\ exitCode' = exitCode

\* run with repository names: the listed repositories that are named, and the
\* warning about the names that are not listed
SelectExplicit ==
    /\ pc = "select"
    /\ Len(repoNames) > 0
    /\ selectedRepos' = SelectedByName(allRepos, repoNames)
    /\ warnings' = IF Len(NotFound(allRepos, repoNames)) > 0
                   THEN Append(warnings, NotFound(allRepos, repoNames))
                   ELSE warnings
    /\ AfterSelection(selectedRepos')
    /\ UNCHANGED <<Inputs, remoteRefs, owner, allRepos, defaultBranch, sha,
                   invoked, outcomes, createdRefs, issued>>

\* run without repository names: selectRepositories, the checkbox prompt; a
\* rejected prompt goes to run's catch
SelectRepositories ==
    /\ pc = "select"
    /\ Len(repoNames) = 0
    /\ \/ \E checked \in SUBSET {allRepos[i].name : i \in 1..Len(allRepos)} :
            /\ issued' = Append(issued, Call(Prompt, ""))
            /\ selectedRepos' = CheckedChoices(allRepos, checked)
            /\ AfterSelection(selectedRepos')
       \/ \E message \in PromptErrors :
            /\ issued' = Append(issued, Call(Prompt, message))
            /\ RunCatch(Error(message))
            /\ UNCHANGED <<selectedRepos, taskIdx>>
    /\ UNCHANGED <<Inputs, remoteRefs, owner, allRepos, warnings, defaultBranch, sha,
                   invoked, outcomes, createdRefs>>

(***************************************************************************)
(* The Listr task list: one task per selected repository, each a call of   *)
(* createBranch.  Listr is built without options: the tasks run one after  *)
(* the other, and the first task that rejects ends the list (exitOnError). *)
(***************************************************************************)
\* the repository of the task that runs
Repo == selectedRepos[taskIdx].name

\* the ref createBranch asks for
NewRef == "refs/heads/" \o branchName

\* tasks.run() after a task fulfilled: the next task, or "All done!" and the
\* end of run()
TaskFulfilled ==
    IF taskIdx < Len(selectedRepos)
    THEN /\ taskIdx' = taskIdx + 1
         /\ pc' = "view"
         /\ UNCHANGED <<stdout, exitCode>>
    ELSE /\ stdout' = stdout \cup {"All done!"}
         /\ pc' = "exited"
         /\ exitCode' = 0
         /\ taskIdx' = taskIdx

\* TaskRejected going on with the next task as if the task had fulfilled
TaskRejectedGoesOn(error) == TaskFulfilled

\* TaskRejected with a rejection that no handler receives: the process is
\* left without an exit
TaskRejectedUnhandled(error) ==
    /\ pc' = "rejected"
    /\ UNCHANGED <<taskIdx, stdout, exitCode>>

\* tasks.run() after a task rejected: no further task is started and run()
\* rejects with the task's error, which run's catch receives
TaskRejected(error) ==
    /\ RunCatch(error)
    /\ taskIdx' = taskIdx

\* a call of createBranch failed at `step` with `error`: createBranch's catch,
\* then the task's catch, then Listr.  `conflict` tells whether the service
\* answered the ref creation with its conflict.
CreateBranchFails(step, conflict, error) ==
    LET thrown == CreateBranchCatch(error)
        rejection == TaskCatch(thrown)
    IN  /\ outcomes' = Append(outcomes,
                [repo     |-> Repo,
                 step     |-> step,
                 conflict |-> conflict,
                 result   |-> CreateBranchOutcome(thrown),
                 reported |-> TaskOutcome(rejection)])
        /\ TaskRejected(rejection)

\* DefaultBranchLookup trusting the default branch of the Lister's snapshot
DefaultBranchFromSnapshot ==
    /\ pc = "view"
    /\ invoked' = Append(invoked, Repo)
    /\ \/ \E out \in DefaultBranchStdouts :
            /\ issued' = Append(issued, Answered(ViewCmd(owner, Repo), out))
            /\ defaultBranch' = selectedRepos[taskIdx].defaultBranch
            /\ pc' = "sha"
            /\ UNCHANGED <<outcomes, taskIdx, stdout, exitCode>>
       \/ \E stderr \in FailureStderrs :
            /\ issued' = Append(issued, Call(ViewCmd(owner, Repo), stderr))
            /\ CreateBranchFails("view", FALSE, ExecError(ViewCmd(owner, Repo), stderr))
            /\ defaultBranch' = defaultBranch
    /\ UNCHANGED <<Inputs, remoteRefs, owner, allRepos, selectedRepos, warnings,
                   sha, createdRefs>>

\* createBranch (a): the task starts, `gh repo view` gives the default branch
DefaultBranchLookup ==
    /\ pc = "view"
    /\ invoked' = Append(invoked, Repo)
    /\ \/ \E out \in DefaultBranchStdouts :
            /\ issued' = Append(issued, Answered(ViewCmd(owner, Repo), out))
            /\ defaultBranch' = IF Trim(out) = "" THEN "main" ELSE Trim(out)
            /\ pc' = "sha"
            /\ UNCHANGED <<outcomes, taskIdx, stdout, exitCode>>
       \/ \E stderr \in FailureStderrs :
            /\ issued' = Append(issued, Call(ViewCmd(owner, Repo), stderr))
            /\ CreateBranchFails("view", FALSE, ExecError(ViewCmd(owner, Repo), stderr))
            /\ defaultBranch' = defaultBranch
    /\ UNCHANGED <<Inputs, remoteRefs, owner, allRepos, selectedRepos, warnings,
                   sha, createdRefs>>

\* createBranch (b): `gh api .../git/refs/heads/<defaultBranch>` gives its commit
HeadCommitLookup ==
    /\ pc = "sha"
    /\ \/ /\ issued' = Append(issued, Answered(ShaCmd(owner, Repo, defaultBranch),
                                               HeadCommit(defaultBranch)))
          /\ sha' = Trim(HeadCommit(defaultBranch))
          /\ pc' = "ref"
          /\ UNCHANGED <<outcomes, taskIdx, stdout, exitCode>>
       \/ \E stderr \in FailureStderrs :
            /\ issued' = Append(issued, Call(ShaCmd(owner, Repo, defaultBranch), stderr))
            /\ CreateBranchFails("sha", FALSE,
                                 ExecError(ShaCmd(owner, Repo, defaultBranch), stderr))
            /\ sha' = sha
    /\ UNCHANGED <<Inputs, remoteRefs, owner, allRepos, selectedRepos, warnings,
                   defaultBranch, invoked, createdRefs>>

\* createBranch (c): `gh api .../git/refs -f ref=... -f sha=...` creates the ref;
\* the service answers with the conflict when the ref exists
CreateRef ==
    /\ pc = "ref"
    /\ \/ /\ Repo \notin remoteRefs
          /\ issued' = Append(issued, Call(RefCmd(owner, Repo, branchName, sha), ""))
          /\ remoteRefs' = remoteRefs \cup {Repo}
          /\ createdRefs' = createdRefs \cup {<<Repo, NewRef, sha>>}
          /\ outcomes' = Append(outcomes,
                [repo |-> Repo, step |-> "none", conflict |-> FALSE,
                 result |-> "Created", reported |-> "Created"])
          /\ TaskFulfilled
       \/ /\ Repo \in remoteRefs
          /\ issued' = Append(issued,
                Call(RefCmd(owner, Repo, branchName, sha), ConflictStderr))
          /\ CreateBranchFails("ref", TRUE,
                ExecError(RefCmd(owner, Repo, branchName, sha), ConflictStderr))
          /\ UNCHANGED <<remoteRefs, createdRefs>>
       \/ \E stderr \in FailureStderrs :
            /\ issued' = Append(issued, Call(RefCmd(owner, Repo, branchName, sha), stderr))
            /\ CreateBranchFails("ref", FALSE,
                  ExecError(RefCmd(owner, Repo, branchName, sha), stderr))
            /\ UNCHANGED <<remoteRefs, createdRefs>>
    /\ UNCHANGED <<Inputs, owner, allRepos, selectedRepos, warnings,
                   defaultBranch, sha, invoked>>

Next ==
    \/ CheckGitHubCLI
    \/ ValidateAndGetOwner
    \/ GetRepositories
    \/ SelectExplicit
    \/ SelectRepositories
    \/ DefaultBranchLookup
    \/ HeadCommitLookup
    \/ CreateRef

Spec == Init /\ [][Next]_vars

\* the longest explicit list of names in the runs checked for termination
MaxFairNames == 1

\* the invocations checked for termination: those of Init with a short list of
\* names and a branch name without blanks
FairInit ==
    /\ Init
    /\ Len(repoNames) <= MaxFairNames
    /\ branchName # "already exists"

\* every external call and the prompt eventually return, and the synchronous
\* code between them runs to its next await
FairSpec == FairInit /\ [][Next]_vars /\ WF_vars(Next)

(***************************************************************************)
(* The Lister alone: getRepositories applied to every parsed listing of    *)
(* the bounds, for a given owner.                                          *)
(***************************************************************************)
ListerInit ==
    /\ pc = "lister"
    /\ help = FALSE
    /\ GITHUB_ORG = ""
    /\ branchName = "x"
    /\ repoNames = <<>>
    /\ remoteRefs = {}
    /\ owner \in {"acme", "alice"}
    /\ listing \in ListResponsesUpTo(owner, MaxListed)
    /\ allRepos = <<>>
    /\ selectedRepos = <<>>
    /\ warnings = <<>>
    /\ taskIdx = 0
    /\ defaultBranch = ""
    /\ sha = ""
    /\ invoked = <<>>
    /\ outcomes = <<>>
    /\ createdRefs = {}
    /\ issued = <<>>
    /\ stdout = {}
    /\ exitCode = -1

\* getRepositories after `gh repo list` printed `listing`: map, sort, return
ListerReturns ==
    /\ pc = "lister"
    /\ issued' = Append(issued, Call(ListCmd(owner), ""))
    /\ allRepos' = NormalizedListing(listing)
    /\ pc' = "listed"
    /\ UNCHANGED <<Inputs, remoteRefs, owner, selectedRepos, warnings, taskIdx,
                   defaultBranch, sha, invoked, outcomes, createdRefs, stdout, exitCode>>

ListerNext == ListerReturns

ListerSpec == ListerInit /\ [][ListerNext]_vars

(***************************************************************************)
(* What a state tells about the run so far.                                *)
(***************************************************************************)
Range(seq) == {seq[i] : i \in 1..Len(seq)}

\* the names of the repositories the Lister returned
ListedNames == {allRepos[i].name : i \in 1..Len(allRepos)}

\* the external call `call` was issued and succeeded / failed
Succeeded(call) == \E i \in 1..Len(issued) : issued[i].call = call /\ issued[i].error = ""
Failed(call) == \E i \in 1..Len(issued) : issued[i].call = call /\ issued[i].error # ""

\* the calls of createBranch: default-branch lookup, head-commit lookup, ref creation
IsBranchCreationCall(call) ==
    \/ Includes(call, "gh repo view ")
    \/ Includes(call, "/git/refs")

NoBranchCreationCall ==
    /\ \A i \in 1..Len(issued) : ~IsBranchCreationCall(issued[i].call)
    /\ invoked = <<>>
    /\ createdRefs = {}

PreflightFailed == Failed(VersionCmd)

\* the prompt was rejected with the message run's catch takes for a cancellation
SelectionCancelled ==
    \E i \in 1..Len(issued) : issued[i].call = Prompt /\ issued[i].error = PromptCancelled

\* the selection step of run has completed
SelectionDone ==
    /\ pc \in {"view", "sha", "ref", "exited"}
    /\ Succeeded(ListCmd(owner))
    /\ Len(repoNames) = 0 => Succeeded(Prompt)

\* a condition that is fatal for the whole run: the preflight, the owner
\* resolution or the listing failed, or the prompt failed unexpectedly
WholeRunFatal ==
    \/ Failed(VersionCmd)
    \/ Failed(UserCmd)
    \/ Failed(ListCmd(owner))
    \/ \E i \in 1..Len(issued) :
         issued[i].call = Prompt /\ issued[i].error \notin {"", PromptCancelled}

\* createBranch was invoked for, and an outcome recorded for, the j-th chosen repository
Processed(j) ==
    /\ selectedRepos[j].name \in Range(invoked)
    /\ \E k \in 1..Len(outcomes) : outcomes[k].repo = selectedRepos[j].name

(***************************************************************************)
(* Claims.                                                                 *)
(***************************************************************************)
\* C1: when the run has ended, a Failed or AlreadyExists outcome of one chosen
\* repository has not kept createBranch from being invoked for, and an outcome
\* from being recorded for, every other chosen repository.
C1_FailureDoesNotStopOthers ==
    (pc = "exited" /\ \E i \in 1..Len(outcomes) : outcomes[i].reported # "Created")
        => \A j \in 1..Len(selectedRepos) : Processed(j)

\* C2: a run in which a chosen repository ended in AlreadyExists (the ref
\* existed) ends with exit code 0.
C2_AlreadyExistsExitsZero ==
    (pc = "exited" /\ \E i \in 1..Len(outcomes) :
                        outcomes[i].conflict /\ outcomes[i].reported = "AlreadyExists")
        => exitCode = 0

\* C3: the exit code is non-zero only after a whole-run-fatal condition, never
\* merely because the branch creation of some repository failed.
C3_NonZeroExitOnlyWhenFatal ==
    (pc = "exited" /\ exitCode # 0) => WholeRunFatal

\* C4: after the non-interactive selection the chosen repositories are exactly
\* the listed repositories whose name is among the explicit names, and the
\* names warned about are exactly the explicit names that no listed
\* repository has.
C4_SelectionByName ==
    (SelectionDone /\ Len(repoNames) > 0) =>
        /\ Range(selectedRepos) = {r \in Range(allRepos) : r.name \in Range(repoNames)}
        /\ UNION {Range(warnings[i]) : i \in 1..Len(warnings)}
              = {l \in Range(repoNames) : \A r \in Range(allRepos) : r.name # l}

C4_Witness ==
    /\ SelectionDone
    /\ Len(repoNames) = 2
    /\ repoNames[1] \notin ListedNames
    /\ repoNames[2] \in ListedNames
    /\ Len(allRepos) = 2
    /\ Len(selectedRepos) = 1
    /\ Len(warnings) = 1

\* C5: every repository createBranch was invoked for is in the listing; an
\* explicit name that is not listed is warned about, and the run then ends
\* without a createBranch invocation only when no name matched (with exit 0).
C5_ActedUponAreListed ==
    /\ Range(invoked) \subseteq ListedNames
    /\ (SelectionDone /\ \E l \in Range(repoNames) : l \notin ListedNames) =>
          /\ Len(warnings) > 0
          /\ \E i \in 1..Len(warnings) : \A l \in Range(repoNames) :
                l \notin ListedNames => l \in Range(warnings[i])
          /\ pc = "exited" =>
                IF Len(selectedRepos) = 0 THEN exitCode = 0 ELSE Len(invoked) > 0

C5_Witness ==
    /\ pc = "exited"
    /\ Len(warnings) > 0
    /\ Len(selectedRepos) > 0
    /\ Len(invoked) > 0
    /\ \E i \in 1..Len(outcomes) : outcomes[i].result = "Created"

\* C6: whenever the service answers the ref creation with its conflict, the
\* outcome of createBranch is AlreadyExists, not Failed, and no ref was
\* created for that repository.
C6_ConflictIsAlreadyExists ==
    \A i \in 1..Len(outcomes) :
        outcomes[i].conflict =>
            /\ outcomes[i].result = "AlreadyExists"
            /\ ~(\E c \in createdRefs : c[1] = outcomes[i].repo)

C6_Witness ==
    \E i \in 1..Len(outcomes) : outcomes[i].conflict /\ outcomes[i].step = "ref"

\* C7: a repository ends in AlreadyExists only when its ref creation was
\* answered with the conflict; every other failure ends in Failed, in
\* createBranch and in what the task reports.
C7_OnlyConflictIsAlreadyExists ==
    \A i \in 1..Len(outcomes) :
        (outcomes[i].result = "AlreadyExists" \/ outcomes[i].reported = "AlreadyExists")
            => (outcomes[i].step = "ref" /\ outcomes[i].conflict)

\* C8: after a cancelled selection prompt the run has ended with exit code 0
\* and no call of createBranch was issued.
C8_CancelStopsBeforeCreation ==
    SelectionCancelled =>
        /\ pc = "exited"
        /\ exitCode = 0
        /\ NoBranchCreationCall

C8_Witness ==
    /\ SelectionCancelled
    /\ Len(allRepos) > 0
    /\ pc = "exited"

\* C9: after a failed preflight probe the process has exited with a non-zero
\* code and the probe is the only external call ever issued.
C9_PreflightFailureStops ==
    PreflightFailed =>
        /\ pc = "exited"
        /\ exitCode > 0
        /\ Len(issued) = 1
        /\ NoBranchCreationCall

C9_Witness ==
    /\ PreflightFailed
    /\ pc = "exited"

\* C10: when the selection yields no repository, the run ends with exit code 0
\* and no call of createBranch is issued.
C10_EmptySelectionExitsZero ==
    (SelectionDone /\ Len(selectedRepos) = 0) =>
        /\ pc = "exited"
        /\ exitCode = 0
        /\ "No repositories selected" \in stdout
        /\ NoBranchCreationCall

C10_Witness ==
    /\ SelectionDone
    /\ Len(selectedRepos) = 0
    /\ Len(allRepos) > 0
    /\ Len(repoNames) > 0

\* the selection prompt was shown
Prompted == \E i \in 1..Len(issued) : issued[i].call = Prompt

StartsWith(s, prefix) == Len(s) >= Len(prefix) /\ SubSeq(s, 1, Len(prefix)) = prefix
EndsWith(s, suffix) ==
    Len(s) >= Len(suffix) /\ SubSeq(s, Len(s) - Len(suffix) + 1, Len(s)) = suffix

\* C11: after a failed owner resolution or a failed listing call the run has
\* ended with a non-zero exit code, without selection step and without any
\* call of createBranch.
C11_OwnerOrListingFailureIsFatal ==
    (Failed(UserCmd) \/ Failed(ListCmd(owner))) =>
        /\ pc = "exited"
        /\ exitCode > 0
        /\ ~Prompted
        /\ selectedRepos = <<>>
        /\ warnings = <<>>
        /\ stdout \cap {"No repositories selected", "Creating branch", "All done!"} = {}
        /\ NoBranchCreationCall

C11_Witness ==
    /\ Failed(ListCmd(owner))
    /\ Len(repoNames) > 0
    /\ pc = "exited"

\* C12: with an organisation configured the owner is that organisation and the
\* identity query is never issued; without one the owner is the handle the
\* identity query printed; the listing and every createBranch call are made
\* for that owner.
C12_OwnerResolution ==
    /\ GITHUB_ORG # "" =>
          /\ \A i \in 1..Len(issued) : issued[i].call # UserCmd
          /\ "Fetching repositories" \in stdout => owner = GITHUB_ORG
    /\ (GITHUB_ORG = "" /\ "Fetching repositories" \in stdout) =>
          \E i \in 1..Len(issued) :
              /\ issued[i].call = UserCmd
              /\ issued[i].error = ""
              /\ owner = Trim(issued[i].out)
    /\ LET list == ListCmd(owner)
           view == "gh repo view " \o owner \o "/"
           api == "gh api repos/" \o owner \o "/"
       IN  \A i \in 1..Len(issued) :
              \/ issued[i].call \in {VersionCmd, UserCmd, Prompt, list}
              \/ StartsWith(issued[i].call, view)
              \/ StartsWith(issued[i].call, api)

C12_Witness ==
    /\ GITHUB_ORG = ""
    /\ owner = "alice"
    /\ \E r \in Names : <<r, NewRef, "c0ffee-trunk">> \in createdRefs

\* C13: an invocation with -h / --help ends with the usage printed and exit
\* code 0, whatever the probe of the external CLI says.
C13_HelpExitsZero ==
    (help /\ pc = "exited") => (exitCode = 0 /\ "Usage" \in stdout)

\* the three calls of createBranch, told apart by their command lines
IsViewCall(call) == StartsWith(call, "gh repo view ")
IsShaCall(call) == StartsWith(call, "gh api repos/") /\ EndsWith(call, " --jq .object.sha")
IsRefCall(call) == StartsWith(call, "gh api repos/") /\ ~EndsWith(call, " --jq .object.sha")

\* the default branch a printed name stands for
BranchOf(out) == LET name == Trim(out) IN IF name = "" THEN "main" ELSE name

\* C14: in the log of calls every head-commit lookup directly follows the
\* successful default-branch lookup of the same repository and asks for the
\* branch that lookup printed; every ref creation directly follows that
\* successful head-commit lookup and asks for refs/heads/<branchName> at the
\* commit it printed; every ref created is such a ref.
C14_CreateBranchOrder ==
    LET view == [r \in Names |-> ViewCmd(owner, r)]
    IN  /\ \A i \in 1..Len(issued) :
              /\ IsShaCall(issued[i].call) =>
                    /\ i > 1
                    /\ issued[i-1].error = ""
                    /\ \E r \in Names :
                          /\ issued[i-1].call = view[r]
                          /\ issued[i].call = ShaCmd(owner, r, BranchOf(issued[i-1].out))
              /\ IsRefCall(issued[i].call) =>
                    /\ i > 2
                    /\ issued[i-2].error = ""
                    /\ issued[i-1].error = ""
                    /\ \E r \in Names :
                          /\ issued[i-2].call = view[r]
                          /\ LET branch == BranchOf(issued[i-2].out)
                             IN  /\ issued[i-1].call = ShaCmd(owner, r, branch)
                                 /\ issued[i-1].out = HeadCommit(branch)
                          /\ issued[i].call =
                                RefCmd(owner, r, branchName, Trim(issued[i-1].out))
        /\ \A c \in createdRefs :
              /\ c[2] = "refs/heads/" \o branchName
              /\ Succeeded(RefCmd(owner, c[1], branchName, c[3]))

C14_Witness ==
    \E i \in 1..Len(selectedRepos) :
        /\ selectedRepos[i].defaultBranch = "develop"
        /\ <<selectedRepos[i].name, NewRef, "c0ffee-trunk">> \in createdRefs

\* C15: what the Lister returns is a permutation of the normalised
\* repositories of the listing, ascending by full name, and the same for
\* every order in which the listing gives the same repositories.
C15_ListingSorted ==
    pc = "listed" =>
        /\ Len(allRepos) = Len(listing)
        /\ Range(allRepos) = {Normalize(listing[i]) : i \in 1..Len(listing)}
        /\ \A i, j \in 1..Len(allRepos) :
              i < j => localeCompare(allRepos[i].full_name, allRepos[j].full_name) < 0
        /\ \A other \in ListResponsesUpTo(owner, MaxListed) :
              Range(other) = Range(listing) => NormalizedListing(other) = allRepos

C15_Witness ==
    /\ pc = "listed"
    /\ Len(listing) = 3
    /\ listing[1].name = "foo"
    /\ listing[2].name = "bar"
    /\ listing[3].name = "baz"
    /\ allRepos[1].name = "bar"
    /\ allRepos[2].name = "baz"
    /\ allRepos[3].name = "foo"

\* the position of the first occurrence of x in seq
FirstIndex(seq, x) == CHOOSE i \in 1..Len(seq) : seq[i] = x /\ \A j \in 1..(i-1) : seq[j] # x

\* C16: createBranch is invoked at most once for a repository, also when the
\* explicit names repeat a name.
C16_InvokedOncePerRepository ==
    /\ \A i, j \in 1..Len(invoked) : invoked[i] = invoked[j] => i = j
    /\ \A i, j \in 1..Len(selectedRepos) :
          selectedRepos[i].name = selectedRepos[j].name => i = j

C16_Witness ==
    /\ Len(repoNames) = 2
    /\ repoNames[1] = repoNames[2]
    /\ invoked = <<repoNames[1]>>
    /\ "All done!" \in stdout

\* C17: after the non-interactive selection there is exactly one not-found
\* warning when some explicit name is not listed, and it holds every such name
\* once, in the order given; there is none when every name is listed.
C17_OneWarningEachNameOnce ==
    (SelectionDone /\ Len(repoNames) > 0) =>
        IF \E l \in Range(repoNames) : l \notin ListedNames
        THEN /\ Len(warnings) = 1
             /\ Range(warnings[1]) = {l \in Range(repoNames) : l \notin ListedNames}
             /\ \A a, b \in 1..Len(warnings[1]) :
                   a < b => FirstIndex(repoNames, warnings[1][a])
                                < FirstIndex(repoNames, warnings[1][b])
        ELSE warnings = <<>>

\* C19: at most one createBranch is in flight, a task starts only after the
\* one before it has ended, and the repositories are taken in the order of
\* the Lister (ascending full name), whatever the order of the explicit names.
C19_SequentialInListerOrder ==
    /\ Len(invoked) - Len(outcomes) \in {0, 1}
    /\ \A k \in 1..Len(outcomes) : outcomes[k].repo = invoked[k]
    /\ \A k \in 1..Len(invoked) : invoked[k] = selectedRepos[k].name
    /\ \A i, j \in 1..Len(invoked) :
          i < j => \E a, b \in 1..Len(allRepos) :
                      /\ a < b
                      /\ allRepos[a].name = invoked[i]
                      /\ allRepos[b].name = invoked[j]
                      /\ localeCompare(allRepos[a].full_name, allRepos[b].full_name) < 0

C19_Witness ==
    /\ repoNames = <<"foo", "bar">>
    /\ invoked = <<"bar", "foo">>
    /\ Len(outcomes) = 1

\* C18: "All done!" is printed only when createBranch was invoked for every
\* chosen repository and each invocation ended in Created; not after an
\* AlreadyExists or Failed outcome, an empty selection or a cancellation.
C18_AllDoneOnlyWhenAllCreated ==
    "All done!" \in stdout =>
        /\ Len(selectedRepos) > 0
        /\ \A j \in 1..Len(selectedRepos) : Processed(j)
        /\ Len(outcomes) = Len(selectedRepos)
        /\ \A k \in 1..Len(outcomes) :
              outcomes[k].result = "Created" /\ outcomes[k].reported = "Created"
        /\ ~SelectionCancelled
        /\ stdout \cap {"No repositories selected", "Operation cancelled"} = {}

C18_Witness ==
    /\ "All done!" \in stdout
    /\ Len(selectedRepos) = 2
    /\ Len(outcomes) = 2

\* the terminal outcomes of run() that hold in a state
TerminalOutcomes ==
    {o \in {"all done", "nothing selected", "cancelled", "failed"} :
        \/ o = "all done" /\ exitCode = 0 /\ "All done!" \in stdout
        \/ o = "nothing selected" /\ exitCode = 0 /\ "No repositories selected" \in stdout
        \/ o = "cancelled" /\ exitCode = 0 /\ "Operation cancelled" \in stdout
        \/ o = "failed" /\ exitCode = 1}

\* C20: when every external call and the prompt return, the process
\* eventually has exited for good, and an invocation that calls run() (no -h)
\* has exactly one of the terminal outcomes: all done, nothing selected,
\* cancelled (each exit 0), or exit 1.
C20_RunTerminates ==
    <>[](pc = "exited" /\ (~help => Cardinality(TerminalOutcomes) = 1))

C20_Witness ==
    /\ pc = "exited"
    /\ ~help
    /\ TerminalOutcomes = {"failed"}
    /\ Len(outcomes) = 2
    /\ outcomes[1].result = "Created"
    /\ outcomes[2].result = "AlreadyExists"

====
